---- MODULE Spec2Model ----
(***************************************************************************)
(* A model of FileUtils (src/file_utils.py): the lazy, depth-bounded,      *)
(* filtering directory walker list_paths, the bulk operations driven by    *)
(* it (copy_files, move_files, remove_files), unzip with its progress bar, *)
(* and clean_expiry_files_dirs.                                            *)
(*                                                                         *)
(* Strings are sequences of one-character strings, so that startswith,     *)
(* splitext, os.path.join and the substring test are computed character by *)
(* character as the library computes them.  None and '' are both falsy in  *)
(* every test the code makes of suffix and key_str ("if suffix:", "if      *)
(* key_str:"); both are the empty sequence here.                           *)
(*                                                                         *)
(* The file system maps a path, given as the sequence of its components,   *)
(* to a node [kind, data, ctime].  A path string is resolved by splitting  *)
(* it at '/', as the operating system does.                                *)
(***************************************************************************)
EXTENDS Integers, Sequences, FiniteSets, TLC

VARIABLES
    fs,       \* the file system: component path -> [kind, data, ctime]
    pc,       \* "setup", "gen", "yield", "unzip", "progress", "sweep", "done",
              \* "raised": where the running operation stands
    op,       \* the operation running: "none", "list", "copy", "move", ...
    args,     \* the arguments the operation was called with
    stack,    \* list_paths: the active generator frames, innermost last
    yielded,  \* list_paths: the path handed to the consumer at a yield
    out,      \* history: the paths yielded so far, in order
    fs0,      \* history: the file system when the operation was called
    err,      \* the exception that left the operation ("" when none)
    log,      \* history: per-file outcomes of a bulk operation / sweep
    zip       \* unzip: [handle, files, no, progress]

vars == <<fs, pc, op, args, stack, yielded, out, fs0, err, log, zip>>

----------------------------------------------------------------------------
(* Bounds of the model. *)

\* Entries (files and directories) created under the roots before a call.
MaxNodes == 3
\* Largest depth argument tried.
MaxDepth == 2
\* Entries created before a call in the depth specification.
MaxTreeNodes == 4
\* Largest number of archive entries.
MaxEntries == 3

----------------------------------------------------------------------------
(* Strings. *)

None == <<>>

Truthy(s) == s # <<>>

\* str.startswith
StartsWith(s, p) == Len(p) <= Len(s) /\ SubSeq(s, 1, Len(p)) = p

\* str.rfind, 1-based; 0 when c does not occur (Python: -1)
RFind(s, c) ==
    LET I == {i \in 1..Len(s) : s[i] = c}
    IN  IF I = {} THEN 0 ELSE CHOOSE i \in I : \A j \in I : j <= i

\* key_str in tmp_path
Contains(sub, s) ==
    \E i \in 1..(Len(s) - Len(sub) + 1) : SubSeq(s, i, i + Len(sub) - 1) = sub

\* posixpath.join(a, b) for one more component
path_join(a, b) ==
    IF StartsWith(b, <<"/">>) THEN b
    ELSE IF a = <<>> \/ a[Len(a)] = "/" THEN a \o b
    ELSE a \o <<"/">> \o b

\* genericpath._splitext: the loop that skips the leading dots of the last
\* component; filenameIndex and dotIndex are 1-based here.
RECURSIVE SplitLoop(_, _, _)
SplitLoop(p, filenameIndex, dotIndex) ==
    IF filenameIndex < dotIndex
    THEN IF p[filenameIndex] # "."
         THEN <<SubSeq(p, 1, dotIndex - 1), SubSeq(p, dotIndex, Len(p))>>
         ELSE SplitLoop(p, filenameIndex + 1, dotIndex)
    ELSE <<p, <<>>>>

\* os.path.splitext
splitext(p) ==
    LET sepIndex == RFind(p, "/")
        dotIndex == RFind(p, ".")
    IN  IF dotIndex > sepIndex
        THEN SplitLoop(p, sepIndex + 1, dotIndex)
        ELSE <<p, <<>>>>

\* os.path.basename
basename(p) == SubSeq(p, RFind(p, "/") + 1, Len(p))

\* os.path.dirname, as far as path resolution needs it: the components
\* of a path string, empty components dropped
RECURSIVE Components(_)
Components(p) ==
    LET I == {i \in 1..Len(p) : p[i] = "/"}
    IN  IF I = {} THEN (IF p = <<>> THEN <<>> ELSE <<p>>)
        ELSE LET i == CHOOSE k \in I : \A j \in I : k <= j
                 head == SubSeq(p, 1, i - 1)
                 rest == Components(SubSeq(p, i + 1, Len(p)))
             IN  IF head = <<>> THEN rest ELSE <<head>> \o rest

----------------------------------------------------------------------------
(* The file system. *)

Dir == [kind |-> "dir", data |-> <<>>, ctime |-> 0]

File(data) == [kind |-> "file", data |-> data, ctime |-> 0]

\* os.path.exists
exists(path) == Components(path) \in DOMAIN fs

\* os.path.isdir
isdir(path) == exists(path) /\ fs[Components(path)].kind = "dir"

\* os.listdir: the names of the entries of a directory (order unspecified)
listdir(path) ==
    LET c == Components(path)
    IN  {q[Len(q)] : q \in {x \in DOMAIN fs : Len(x) = Len(c) + 1
                                             /\ SubSeq(x, 1, Len(c)) = c}}

\* a function with one point added or overwritten
Put(f, k, v) == [x \in DOMAIN f \cup {k} |-> IF x = k THEN v ELSE f[x]]

\* a function with a set of points removed
Drop(f, K) == [x \in DOMAIN f \ K |-> f[x]]

\* a path and everything below it
Subtree(f, c) == {x \in DOMAIN f : Len(x) >= Len(c) /\ SubSeq(x, 1, Len(c)) = c}

----------------------------------------------------------------------------
(* Names used to populate the file system. *)

a_zip   == <<"a", ".", "z", "i", "p">>
a_zipx  == <<"a", ".", "z", "i", "p", "x">>
a_ZIP   == <<"a", ".", "Z", "I", "P">>
a_b_zip == <<"a", "_", "b", ".", "z", "i", "p">>
a_b_txt == <<"a", "_", "b", ".", "t", "x", "t">>
c_txt   == <<"c", ".", "t", "x", "t">>
s_d     == <<"s", "_", "d">>
s_zip   == <<"s", ".", "z", "i", "p">>
dot_zip == <<".", "z", "i", "p">>

FilterFiles == {a_zip, a_zipx, a_ZIP, a_b_zip, a_b_txt, c_txt, dot_zip, <<"c">>}
FilterDirs  == {s_d, s_zip}
FilterRoots == {<<"r">>, <<"r", "/">>, <<"r", "_">>}
Suffixes    == {None, <<"z", "i", "p">>, <<".", "z", "i", "p">>}
Keys        == {None, <<"_">>}

PlainNames  == {<<"a">>, <<"b">>}
PlainRoots  == {<<"r">>}

----------------------------------------------------------------------------
(* list_paths: a generator.  A frame is one activation of list_paths,      *)
(* suspended inside its for loop; todo holds the entries of its listdir    *)
(* snapshot not yet visited (listdir's order is unspecified, so the next   *)
(* entry is any of them).                                                  *)

\* a suffix used as given, its leading '.' not added
NormaliseAsGiven(suffix) == suffix

\* lines 137-139: a suffix is made to start with '.'
Normalise(suffix) ==
    IF Truthy(suffix)
    THEN IF ~StartsWith(suffix, <<".">>) THEN <<".">> \o suffix ELSE suffix
    ELSE suffix

\* a walker that descends one level too many
RecurseOffByOne(depth) == 0 <= depth

\* line 145: current_dir_level < depth, current_dir_level being 0
Recurse(depth) == 0 < depth

\* lines 150-154: the suffix test, appended to found when suffix is set
SuffixFound(suffix, tmp_path) ==
    IF Truthy(suffix) THEN <<splitext(tmp_path)[2] = suffix>> ELSE <<>>

\* a substring test on the file name instead of the full path
KeyFoundInName(key_str, tmp_path) ==
    IF Truthy(key_str) THEN <<Contains(key_str, basename(tmp_path))>> ELSE <<>>

\* lines 156-160: the substring test, appended to found when key_str is set
KeyFound(key_str, tmp_path) ==
    IF Truthy(key_str) THEN <<Contains(key_str, tmp_path)>> ELSE <<>>

\* lines 149-162: all(found)
AllFound(suffix, key_str, tmp_path) ==
    LET found == SuffixFound(suffix, tmp_path) \o KeyFound(key_str, tmp_path)
    IN  \A i \in 1..Len(found) : found[i]

\* lines 123-141: a call of list_paths, run up to its listdir
Call(dir_path, depth, suffix, key_str) ==
    [dir    |-> dir_path,
     depth  |-> depth,
     suffix |-> Normalise(suffix),
     key    |-> key_str,
     todo   |-> listdir(dir_path)]

\* a frame whose for loop is exhausted returns to its caller
RECURSIVE Unwind(_)
Unwind(stk) ==
    IF stk # <<>> /\ stk[Len(stk)].todo = {}
    THEN Unwind(SubSeq(stk, 1, Len(stk) - 1))
    ELSE stk

AfterGen(stk) == IF stk = <<>> THEN "done" ELSE "gen"

\* lines 141-163: one iteration of the innermost for loop
GenEntry ==
    /\ pc = "gen"
    /\ LET top == stack[Len(stack)]
       IN  \E n \in top.todo :
             LET tmp_path == path_join(top.dir, n)
                 rest == [stack EXCEPT ![Len(stack)].todo = top.todo \ {n}]
             IN  IF isdir(tmp_path)
                 THEN /\ stack' = Unwind(
                            IF Recurse(top.depth)
                            THEN Append(rest, Call(tmp_path, top.depth - 1,
                                                   top.suffix, top.key))
                            ELSE rest)
                      /\ pc' = AfterGen(stack')
                      /\ UNCHANGED yielded
                 ELSE IF AllFound(top.suffix, top.key, tmp_path)
                 THEN /\ stack' = rest
                      /\ yielded' = tmp_path
                      /\ pc' = "yield"
                 ELSE /\ stack' = Unwind(rest)
                      /\ pc' = AfterGen(stack')
                      /\ UNCHANGED yielded
    /\ UNCHANGED <<fs, op, args, out, fs0, err, log, zip>>

\* the generator is resumed after a yield
Resume == Unwind(stack)

----------------------------------------------------------------------------
(* The environment populates the tree before an operation is called. *)

NoZip == [handle |-> "none", files |-> <<>>, no |-> 0, progress |-> <<>>]

NoArgs == [dir_path |-> <<>>, depth |-> 0, suffix |-> None, key_str |-> None,
           dst_dir |-> <<>>]

InitRoots(roots) ==
    /\ \E r \in roots : fs = (Components(r) :> Dir)
    /\ pc = "setup"
    /\ op = "none"
    /\ args = NoArgs
    /\ stack = <<>>
    /\ yielded = <<>>
    /\ out = <<>>
    /\ fs0 = fs
    /\ err = ""
    /\ log = <<>>
    /\ zip = NoZip

\* a file or a directory is created in an existing directory
CreateEntry(fileNames, dirNames, maxNodes) ==
    /\ pc = "setup"
    /\ Cardinality(DOMAIN fs) <= maxNodes
    /\ \E parent \in {c \in DOMAIN fs : fs[c].kind = "dir"} :
         \/ \E n \in fileNames :
              /\ Append(parent, n) \notin DOMAIN fs
              /\ fs' = Put(fs, Append(parent, n), File(Append(parent, n)))
         \/ \E n \in dirNames :
              /\ Append(parent, n) \notin DOMAIN fs
              /\ fs' = Put(fs, Append(parent, n), Dir)
    /\ UNCHANGED <<pc, op, args, stack, yielded, out, fs0, err, log, zip>>

----------------------------------------------------------------------------
(* Iterating list_paths to the end and collecting what it yields. *)

\* lines 197-198: res = list_paths(...); the for loop makes the first call
StartList(roots, depths, suffixes, keys) ==
    /\ pc = "setup"
    /\ \E r \in roots, d \in depths, s \in suffixes, k \in keys :
         /\ isdir(r)
         /\ args' = [NoArgs EXCEPT !.dir_path = r, !.depth = d,
                                   !.suffix = s, !.key_str = k]
         /\ stack' = Unwind(<<Call(r, d, s, k)>>)
         /\ pc' = AfterGen(stack')
    /\ op' = "list"
    /\ fs0' = fs
    /\ UNCHANGED <<fs, yielded, out, err, log, zip>>

\* lines 198-199: the consumer takes the yielded path and asks for the next
Collect ==
    /\ pc = "yield"
    /\ op = "list"
    /\ out' = Append(out, yielded)
    /\ stack' = Resume
    /\ pc' = AfterGen(stack')
    /\ UNCHANGED <<fs, op, args, yielded, fs0, err, log, zip>>

InitFilter == InitRoots(FilterRoots)

NextFilter ==
    \/ CreateEntry(FilterFiles, FilterDirs, MaxNodes)
    \/ StartList(FilterRoots, 0..1, Suffixes, Keys)
    \/ GenEntry
    \/ Collect

SpecFilter == InitFilter /\ [][NextFilter]_vars

InitDepth == InitRoots(PlainRoots)

NextDepth ==
    \/ CreateEntry(PlainNames, PlainNames, MaxTreeNodes)
    \/ StartList(PlainRoots, 0..MaxDepth, {None}, {None})
    \/ GenEntry
    \/ Collect

SpecDepth == InitDepth /\ [][NextDepth]_vars

----------------------------------------------------------------------------
(* copy_files, move_files, remove_files: a for loop over list_paths that   *)
(* applies shutil.copy, shutil.move or os.remove to each yielded path.     *)

BulkFiles == {<<"a">>, <<"b", ".", "z">>}
BulkDirs  == {<<"d">>}
BulkRoots == {<<"r">>}
BulkSuffixes == {None, <<"z">>}
\* a directory beside the tree, a path whose parent is missing, and a
\* directory inside the tree
DstDirs   == {<<"o">>, <<"q", "/", "o">>, <<"r", "/", "d">>}

\* the directory an entry would be created in exists
ParentIsDir(f, c) ==
    Len(c) = 1 \/ (SubSeq(c, 1, Len(c) - 1) \in DOMAIN f
                   /\ f[SubSeq(c, 1, Len(c) - 1)].kind = "dir")

IsFile(f, c) == c \in DOMAIN f /\ f[c].kind = "file"
IsDirIn(f, c) == c \in DOMAIN f /\ f[c].kind = "dir"

Outcome(f, e, t) == [fs |-> f, err |-> e, target |-> t]

\* shutil.copyfile(src, target): same file, then open(src), open(target, 'wb')
copyfile(src, target) ==
    LET s == Components(src)
        t == Components(target)
    IN  IF s \in DOMAIN fs /\ s = t THEN Outcome(fs, "SameFileError", target)
        ELSE IF s \notin DOMAIN fs THEN Outcome(fs, "FileNotFoundError", target)
        ELSE IF IsDirIn(fs, t) THEN Outcome(fs, "IsADirectoryError", target)
        ELSE IF ~ParentIsDir(fs, t) THEN Outcome(fs, "FileNotFoundError", target)
        ELSE Outcome(Put(fs, t, File(fs[s].data)), "", target)

\* line 46: shutil.copy(file, dst_dir); into dst when it is a directory,
\* onto the path dst otherwise
copy(src, dst) ==
    copyfile(src, IF isdir(dst) THEN path_join(dst, basename(src)) ELSE dst)

\* line 58: shutil.move(file, dst_dir); os.rename, and when that raises
\* OSError, copy2 and unlink
move(src, dst) ==
    LET s == Components(src)
        real_dst == IF isdir(dst) THEN path_join(dst, basename(src)) ELSE dst
        t == Components(real_dst)
    IN  IF isdir(dst) /\ exists(real_dst) THEN Outcome(fs, "Error", real_dst)
        ELSE IF s \in DOMAIN fs /\ ParentIsDir(fs, t) /\ ~IsDirIn(fs, t)
        THEN Outcome(Put(Drop(fs, {s}), t, File(fs[s].data)), "", real_dst)
        ELSE LET c == copyfile(src, real_dst)
             IN  IF c.err = "" THEN Outcome(Drop(c.fs, {s}), "", real_dst)
                 ELSE c

\* line 70: os.remove(file)
remove(src) ==
    LET s == Components(src)
    IN  IF s \notin DOMAIN fs THEN Outcome(fs, "FileNotFoundError", src)
        ELSE IF fs[s].kind = "dir" THEN Outcome(fs, "IsADirectoryError", src)
        ELSE Outcome(Drop(fs, {s}), "", src)

BulkOps == {"copy", "move", "remove"}

\* the body of the for loop, for the operation running
Body(file) ==
    IF op = "copy" THEN copy(file, args.dst_dir)
    ELSE IF op = "move" THEN move(file, args.dst_dir)
    ELSE remove(file)

\* a loop that catches the exception and goes on with the next path
OnErrorSwallow(e, stk) ==
    [pc |-> AfterGen(Unwind(stk)), stack |-> Unwind(stk), err |-> ""]

\* lines 44-46, 56-58, 68-70: no handler surrounds the loop body, so an
\* exception leaves the operation and the generator is dropped
OnError(e, stk) == [pc |-> "raised", stack |-> <<>>, err |-> e]

StartBulk(name, roots, depths, suffixes, keys, dsts) ==
    /\ pc = "setup"
    /\ \E r \in roots, d \in depths, s \in suffixes, k \in keys, t \in dsts :
         /\ isdir(r)
         /\ args' = [dir_path |-> r, depth |-> d, suffix |-> s, key_str |-> k,
                     dst_dir |-> t]
         /\ stack' = Unwind(<<Call(r, d, s, k)>>)
         /\ pc' = AfterGen(stack')
    /\ op' = name
    /\ fs0' = fs
    /\ UNCHANGED <<fs, yielded, out, err, log, zip>>

\* lines 37-46
StartCopy == StartBulk("copy", BulkRoots, 0..1, BulkSuffixes, Keys, DstDirs)

\* lines 49-58: move_files takes no key_str
StartMove == StartBulk("move", BulkRoots, 0..1, BulkSuffixes, {None}, DstDirs)

\* lines 61-70: remove_files takes neither key_str nor dst_dir
StartRemove == StartBulk("remove", BulkRoots, 0..1, BulkSuffixes, {None}, {<<>>})

\* one turn of the for loop: the body on the yielded path, then the next
\* path is asked for.  The file system may refuse the operation (fault).
BulkApply ==
    /\ pc = "yield"
    /\ op \in BulkOps
    /\ \E fault \in BOOLEAN :
         LET r == IF fault THEN Outcome(fs, "PermissionError", yielded)
                  ELSE Body(yielded)
             e == OnError(r.err, stack)
         IN  /\ fs' = r.fs
             /\ log' = Append(log, [path |-> yielded, err |-> r.err,
                                    target |-> r.target, after |-> r.fs])
             /\ IF r.err = ""
                THEN /\ stack' = Resume
                     /\ pc' = AfterGen(stack')
                     /\ UNCHANGED err
                ELSE /\ stack' = e.stack
                     /\ pc' = e.pc
                     /\ err' = e.err
    /\ out' = Append(out, yielded)
    /\ UNCHANGED <<op, args, yielded, fs0, zip>>

InitBulk == InitRoots(BulkRoots)

\* the directory "o" beside the tree is created
CreateOutside ==
    /\ pc = "setup"
    /\ <<<<"o">>>> \notin DOMAIN fs
    /\ fs' = Put(fs, <<<<"o">>>>, Dir)
    /\ UNCHANGED <<pc, op, args, stack, yielded, out, fs0, err, log, zip>>

NextBulk ==
    \/ CreateEntry(BulkFiles, BulkDirs, MaxNodes)
    \/ CreateOutside
    \/ StartCopy
    \/ StartMove
    \/ StartRemove
    \/ GenEntry
    \/ BulkApply

SpecBulk == InitBulk /\ [][NextBulk]_vars

----------------------------------------------------------------------------
(* unzip: the archive is opened in a with statement, its entries are       *)
(* extracted in namelist order, and __progress_bar is called after each.   *)

EntryNames == {<<"x">>, <<"w">>, <<"s", "/", "y">>, <<"s", "/">>}
ZipPaths   == {<<"z">>, <<"r", "/", "z">>}
UnzipDsts  == {<<"o">>, <<"q", "/", "o">>}

\* the archives tried: up to MaxEntries distinct entries, in any order
Archives ==
    {a \in UNION {[1..n -> EntryNames] : n \in 0..MaxEntries} :
        \A i, j \in 1..Len(a) : i # j => a[i] # a[j]}

\* os.makedirs(upperdirs) when upperdirs does not exist: every missing
\* directory on the way is created
RECURSIVE makedirs(_, _)
makedirs(f, c) ==
    IF c = <<>> \/ c \in DOMAIN f THEN f
    ELSE Put(makedirs(f, SubSeq(c, 1, Len(c) - 1)), c, Dir)

\* some directory on the way to c is a regular file
BlockedByFile(f, c) == \E k \in 1..Len(c) : IsFile(f, SubSeq(c, 1, k))

\* line 80: ZipFile.extract(member, dst_dir): the directories above the
\* target are created, then the directory is made or the file written
extract(member, dst) ==
    LET t == Components(dst) \o Components(member)
        upper == SubSeq(t, 1, Len(t) - 1)
        target == path_join(dst, member)
        made == makedirs(fs, upper)
    IN  IF BlockedByFile(fs, upper) THEN Outcome(fs, "FileExistsError", target)
        ELSE IF member[Len(member)] = "/"
        THEN IF IsFile(made, t) THEN Outcome(made, "FileExistsError", target)
             ELSE Outcome(makedirs(made, t), "", target)
        ELSE IF IsDirIn(made, t) THEN Outcome(made, "IsADirectoryError", target)
        ELSE Outcome(Put(made, t, File(<<member>>)), "", target)

\* a progress line that is ended only past the total
TerminatesLate(portion, total) == portion > total

\* line 118: the progress line is ended once portion reaches total
Terminates(portion, total) == portion >= total

\* lines 92-120: __progress_bar; count is ceil(portion / (total / 50)), and
\* a total of 0 makes the division of line 105 raise.  The code divides in
\* floating point; for the totals tried here the result is the exact
\* ceiling (it is one more for some totals from 35 on).  The percentage
\* shown is not kept.
progress_bar(portion, total, file_name) ==
    IF total = 0
    THEN [err |-> "ZeroDivisionError", completed |-> portion, total |-> total,
          count |-> 0, label |-> <<>>, newline |-> FALSE]
    ELSE [err |-> "", completed |-> portion, total |-> total,
          count |-> (50 * portion + total - 1) \div total,
          label |-> (IF basename(file_name) # <<>> THEN basename(file_name)
                     ELSE file_name),
          newline |-> Terminates(portion, total)]

\* an archive opened without a with block: nothing closes it
WithExitLeaks(z) == z

\* line 75: leaving the with block, normally or by an exception, closes
\* the archive
WithExit(z) == [z EXCEPT !.handle = "closed"]

\* lines 73-77: the archive is opened and its entries are listed
StartUnzip ==
    /\ pc = "setup"
    /\ \E a \in Archives, zp \in ZipPaths, dst \in UnzipDsts :
         /\ zip' = [handle |-> "open", files |-> a, no |-> 0,
                    progress |-> <<>>]
         /\ args' = [NoArgs EXCEPT !.dir_path = zp, !.dst_dir = dst]
    /\ op' = "unzip"
    /\ pc' = "unzip"
    /\ fs0' = fs
    /\ UNCHANGED <<fs, stack, yielded, out, err, log>>

\* lines 79-80: the next entry is extracted; the extraction may fail
Extract ==
    /\ pc = "unzip"
    /\ zip.no < Len(zip.files)
    /\ \E fault \in BOOLEAN :
         LET member == zip.files[zip.no + 1]
             r == IF fault THEN Outcome(fs, "OSError", member)
                  ELSE extract(member, args.dst_dir)
         IN  /\ fs' = r.fs
             /\ log' = Append(log, [path |-> member, err |-> r.err,
                                    target |-> r.target, after |-> r.fs])
             /\ IF r.err = ""
                THEN /\ zip' = [zip EXCEPT !.no = zip.no + 1]
                     /\ pc' = "progress"
                     /\ UNCHANGED err
                ELSE /\ zip' = WithExit([zip EXCEPT !.no = zip.no + 1])
                     /\ pc' = "raised"
                     /\ err' = r.err
    /\ UNCHANGED <<op, args, stack, yielded, out, fs0>>

\* line 81: the progress update; writing to stdout may fail
Progress ==
    /\ pc = "progress"
    /\ \E fault \in BOOLEAN :
         LET u == progress_bar(zip.no, Len(zip.files), args.dir_path)
         IN  IF fault \/ u.err # ""
             THEN /\ zip' = WithExit(zip)
                  /\ pc' = "raised"
                  /\ err' = IF u.err # "" THEN u.err ELSE "OSError"
             ELSE /\ zip' = [zip EXCEPT !.progress = Append(zip.progress, u)]
                  /\ pc' = "unzip"
                  /\ UNCHANGED err
    /\ UNCHANGED <<fs, op, args, stack, yielded, out, fs0, log>>

\* lines 79, 75: the loop is over; the with block is left
Finish ==
    /\ pc = "unzip"
    /\ zip.no = Len(zip.files)
    /\ zip' = WithExit(zip)
    /\ pc' = "done"
    /\ UNCHANGED <<fs, op, args, stack, yielded, out, fs0, err, log>>

InitUnzip == InitRoots(BulkRoots)

NextUnzip ==
    \/ CreateOutside
    \/ StartUnzip
    \/ Extract
    \/ Progress
    \/ Finish

SpecUnzip == InitUnzip /\ [][NextUnzip]_vars

----------------------------------------------------------------------------
(* clean_expiry_files_dirs: every immediate child older than expiry_days   *)
(* is handed to shutil.rmtree.                                             *)

\* line 175: expiry_days * 24 * 60 ** 2
SecondsPerDay == 24 * 60 * 60

\* time() at the call, and the ages of the children tried
Now == SecondsPerDay + 1
Ages == {0, 1, SecondsPerDay, SecondsPerDay + 1}
ExpiryDays == {-1, 0, 1}
SweepNames == {<<"a">>, <<"b">>}

\* a child of the swept directory, or an entry of a child directory, is
\* created with some creation time
CreateAged(names, maxNodes) ==
    /\ pc = "setup"
    /\ Cardinality(DOMAIN fs) <= maxNodes
    /\ \E parent \in {c \in DOMAIN fs : fs[c].kind = "dir" /\ Len(c) <= 2},
          n \in names, age \in Ages, k \in {"file", "dir"} :
         /\ Append(parent, n) \notin DOMAIN fs
         /\ fs' = Put(fs, Append(parent, n),
                      [kind |-> k, data |-> <<>>, ctime |-> Now - age])
    /\ UNCHANGED <<pc, op, args, stack, yielded, out, fs0, err, log, zip>>

\* os.path.getctime
getctime(path) == fs[Components(path)].ctime

\* line 182: shutil.rmtree(path_): a directory goes with its subtree; a
\* regular file makes rmtree raise NotADirectoryError
rmtree(path) ==
    LET c == Components(path)
    IN  IF c \notin DOMAIN fs THEN Outcome(fs, "FileNotFoundError", path)
        ELSE IF fs[c].kind = "dir" THEN Outcome(Drop(fs, Subtree(fs, c)), "", path)
        ELSE Outcome(fs, "NotADirectoryError", path)

\* line 181
Expired(now, create_date_seconds, expiry_seconds) ==
    now - create_date_seconds > expiry_seconds

\* lines 171-177: the guard, the clock reading and the listing
StartSweep ==
    /\ pc = "setup"
    /\ \E r \in BulkRoots, e \in ExpiryDays :
         /\ isdir(r)
         /\ args' = [dir_path |-> r, expiry_days |-> e, now |-> Now,
                     expiry_seconds |-> e * SecondsPerDay]
         /\ IF e < 0
            THEN /\ pc' = "done"
                 /\ UNCHANGED stack
            ELSE /\ stack' = <<Call(r, 0, None, None)>>
                 /\ pc' = "sweep"
    /\ op' = "sweep"
    /\ fs0' = fs
    /\ UNCHANGED <<fs, yielded, out, err, log, zip>>

\* lines 177-183: one child is examined and, when expired, removed
SweepEntry ==
    /\ pc = "sweep"
    /\ stack[1].todo # {}
    /\ \E i \in stack[1].todo :
         LET path_ == path_join(stack[1].dir, i)
             r == IF Expired(args.now, getctime(path_), args.expiry_seconds)
                  THEN rmtree(path_)
                  ELSE Outcome(fs, "", <<>>)
         IN  /\ fs' = r.fs
             /\ log' = Append(log, [path |-> path_, err |-> r.err,
                                    target |-> r.target, after |-> r.fs])
             /\ IF r.err = ""
                THEN /\ stack' = [stack EXCEPT ![1].todo = stack[1].todo \ {i}]
                     /\ pc' = "sweep"
                     /\ UNCHANGED err
                ELSE /\ stack' = <<>>
                     /\ pc' = "raised"
                     /\ err' = r.err
    /\ UNCHANGED <<op, args, yielded, out, fs0, zip>>

\* line 177: the loop is over
SweepEnd ==
    /\ pc = "sweep"
    /\ stack[1].todo = {}
    /\ stack' = <<>>
    /\ pc' = "done"
    /\ UNCHANGED <<fs, op, args, yielded, out, fs0, err, log, zip>>

InitSweep == InitRoots(BulkRoots)

NextSweep ==
    \/ CreateAged(SweepNames, MaxNodes)
    \/ StartSweep
    \/ SweepEntry
    \/ SweepEnd

SpecSweep == InitSweep /\ [][NextSweep]_vars

----------------------------------------------------------------------------
(* What the claims speak of, stated on the tree as it was at the call.     *)

RootOf == Components(args.dir_path)

\* subdirectory levels between the root and an entry: 0 directly in the root
Level(c) == Len(c) - Len(RootOf) - 1

Under(c) == Len(c) > Len(RootOf) /\ SubSeq(c, 1, Len(RootOf)) = RootOf

FilesWithin(d) ==
    {c \in DOMAIN fs0 : fs0[c].kind = "file" /\ Under(c) /\ Level(c) <= d}

YieldedNodes == {Components(out[i]) : i \in 1..Len(out)}

NoDuplicates == \A i, j \in 1..Len(out) : i # j => out[i] # out[j]

NameOf(c) == c[Len(c)]

HasChar(s, ch) == \E i \in 1..Len(s) : s[i] = ch

\* the extension of a file name: from its last dot, when something other
\* than dots stands before that dot
Ext(n) ==
    IF \E i \in 2..Len(n) : /\ n[i] = "."
                            /\ \A j \in (i + 1)..Len(n) : n[j] # "."
                            /\ \E j \in 1..(i - 1) : n[j] # "."
    THEN SubSeq(n, RFind(n, "."), Len(n))
    ELSE <<>>

Dotted(s) == IF s[1] = "." THEN s ELSE <<".">> \o s

\* the full path of an entry: the root as given, then the names below it
RECURSIVE FullPath(_)
FullPath(c) ==
    IF c = RootOf THEN args.dir_path
    ELSE LET up == FullPath(SubSeq(c, 1, Len(c) - 1))
         IN  (IF up[Len(up)] = "/" THEN up ELSE up \o <<"/">>) \o NameOf(c)

FilterPasses(c) ==
    /\ Truthy(args.suffix) => Ext(NameOf(c)) = Dotted(args.suffix)
    /\ Truthy(args.key_str) => Contains(args.key_str, FullPath(c))

Listing == op = "list"
Unfiltered == ~Truthy(args.suffix) /\ ~Truthy(args.key_str)

\* C1: iterating list_paths(T, depth = d) with no suffix and no key_str
\* yields exactly the non-directory entries at most d levels below T, each
\* path once, and never a directory.
C1_DepthBoundedWalk ==
    (Listing /\ Unfiltered) =>
        /\ NoDuplicates
        /\ YieldedNodes \subseteq FilesWithin(args.depth)
        /\ \A i \in 1..Len(out) : out[i] = FullPath(Components(out[i]))
        /\ pc = "done" => YieldedNodes = FilesWithin(args.depth)

\* a finished walk of depth 1 that yielded a file one level down and left
\* out a file two levels down
C1_Witness ==
    /\ Listing /\ pc = "done" /\ args.depth = 1
    /\ \E c \in YieldedNodes : Level(c) = 1
    /\ \E c \in DOMAIN fs0 : fs0[c].kind = "file" /\ Level(c) = 2

\* C2: a file is yielded iff every configured filter passes: the extension
\* equals the suffix made to start with '.', exactly and case-sensitively,
\* and key_str occurs in the path; 'zip' and '.zip' both match a.zip and
\* neither matches a.zipx or a.ZIP; the filters are the same at every level.
C2_FiltersConjunctive ==
    Listing =>
        /\ YieldedNodes \subseteq {c \in FilesWithin(args.depth) : FilterPasses(c)}
        /\ pc = "done" =>
             /\ YieldedNodes = {c \in FilesWithin(args.depth) : FilterPasses(c)}
             /\ (Truthy(args.suffix) /\ ~Truthy(args.key_str)) =>
                  \A c \in FilesWithin(args.depth) :
                     /\ NameOf(c) = a_zip => c \in YieldedNodes
                     /\ NameOf(c) \in {a_zipx, a_ZIP} => c \notin YieldedNodes
             /\ Unfiltered => YieldedNodes = FilesWithin(args.depth)

\* a finished walk with both filters set that yielded a file one level down
\* and refused a file that passes the suffix filter alone
C2_Witness ==
    /\ Listing /\ pc = "done"
    /\ args.suffix = <<"z", "i", "p">> /\ args.key_str = <<"_">>
    /\ \E c \in YieldedNodes : Level(c) = 1 /\ NameOf(c) = a_zip
    /\ \E c \in FilesWithin(args.depth) : NameOf(c) = a_zip /\ c \notin YieldedNodes

HasBoth ==
    /\ \E c \in DOMAIN fs0 : fs0[c].kind = "file" /\ NameOf(c) = a_b_txt
    /\ \E c \in DOMAIN fs0 : fs0[c].kind = "file" /\ NameOf(c) = c_txt

UnderscoreOnly == Listing /\ args.key_str = <<"_">> /\ ~Truthy(args.suffix)

\* C3 as claimed: for every root path and every tree holding a_b.txt and
\* c.txt, list_paths with key_str = '_' does not yield the path of c.txt.
C3_AsClaimed ==
    (UnderscoreOnly /\ HasBoth) =>
        \A c \in YieldedNodes : NameOf(c) # c_txt

\* the directories on the way from the root down to an entry
DirsAbove(c) == {SubSeq(c, 1, k) : k \in (Len(RootOf) + 1)..(Len(c) - 1)}

UnderscoreAbove(c) ==
    \/ HasChar(args.dir_path, "_")
    \/ \E d \in DirsAbove(c) : HasChar(NameOf(d), "_")

\* C3 as amended: with key_str = '_' a_b.txt within the depth is yielded,
\* and c.txt within the depth is yielded exactly when '_' occurs in the
\* root path as given or in the name of a directory between root and c.txt.
C3_FullPathMembership ==
    (UnderscoreOnly /\ pc = "done") =>
        \A c \in FilesWithin(args.depth) :
            /\ NameOf(c) = a_b_txt => c \in YieldedNodes
            /\ NameOf(c) = c_txt => (c \in YieldedNodes <=> UnderscoreAbove(c))

\* a finished walk with key_str = '_' of a tree holding both files that
\* yielded a_b.txt and not c.txt
C3_Witness ==
    /\ UnderscoreOnly /\ pc = "done" /\ HasBoth
    /\ \E c \in YieldedNodes : NameOf(c) = a_b_txt
    /\ \E c \in FilesWithin(args.depth) : NameOf(c) = c_txt /\ c \notin YieldedNodes

----------------------------------------------------------------------------
(* Bulk operations. *)

Bulk == op \in BulkOps

Snapshot == {c \in FilesWithin(args.depth) : FilterPasses(c)}

Succeeded == {i \in 1..Len(log) : log[i].err = ""}

DstMissingAtCall == Components(args.dst_dir) \notin DOMAIN fs0

\* C4 as claimed, for copy_files and move_files: when dst_dir does not
\* exist at the call and a file is to be written, the operation fails, no
\* file is copied or moved, and dst_dir still does not exist.
C4_MissingDstFails ==
    (op \in {"copy", "move"} /\ DstMissingAtCall /\ Len(log) >= 1) =>
        /\ pc = "raised"
        /\ Succeeded = {}
        /\ fs = fs0
        /\ ~exists(args.dst_dir)

\* C4 as claimed, for unzip: when dst_dir does not exist at the call and
\* the archive has an entry, unzip fails and dst_dir still does not exist.
C4_MissingDstFailsUnzip ==
    (op = "unzip" /\ DstMissingAtCall /\ zip.no >= 1) =>
        /\ pc = "raised"
        /\ fs = fs0
        /\ ~exists(args.dst_dir)

\* the file system as the last successful loop body left it
AfterLastSuccess ==
    IF Succeeded = {} THEN fs0
    ELSE log[CHOOSE i \in Succeeded : \A j \in Succeeded : j <= i].after

\* C8: copy_files, move_files and remove_files are fail-fast: when the
\* operation on the k-th yielded path raises, the error reaches the caller
\* at once, no later path is operated on, and the effects on the first k-1
\* paths stay as they were.
C8_FailFast ==
    Bulk =>
        /\ \A i \in 1..Len(log) :
              log[i].err # "" => /\ i = Len(log)
                                 /\ pc = "raised"
                                 /\ err = log[i].err
        /\ pc = "raised" => /\ fs = AfterLastSuccess
                            /\ Len(out) = Len(log)
                            /\ stack = <<>>

\* move_files has raised on its second path or later, with a file of the
\* snapshot still not operated on
C8_Witness ==
    /\ op = "move" /\ pc = "raised" /\ Len(log) >= 2
    /\ Succeeded # {}
    /\ \E c \in Snapshot : c \notin YieldedNodes /\ c \in DOMAIN fs

\* C10 as claimed: the files a bulk operation works on are exactly those
\* list_paths would yield on the tree as it was at the call, each once, and
\* no file the operation itself put into dst_dir is yielded again.
C10_SnapshotWork ==
    Bulk =>
        /\ NoDuplicates
        /\ YieldedNodes \subseteq Snapshot
        /\ \A i \in Succeeded : \A j \in (i + 1)..Len(out) :
              op # "remove" => Components(out[j]) # Components(log[i].target)
        /\ (pc = "done") => YieldedNodes = Snapshot

----------------------------------------------------------------------------
(* unzip. *)

Unzipping == op = "unzip"

\* C7: unzip on an archive with N entries makes N progress updates, the
\* k-th after the k-th entry of the listing is extracted, with completed
\* = 1..N and total = N; only the last ends the progress line; for N = 0
\* there is no update, no division by zero, and unzip returns normally.
C7_ProgressUpdates ==
    Unzipping =>
        LET N == Len(zip.files)
            P == zip.progress
        IN  /\ \A k \in 1..Len(P) :
                  /\ P[k].completed = k
                  /\ P[k].total = N
                  /\ P[k].newline <=> (k = N)
                  /\ log[k].err = "" /\ log[k].path = zip.files[k]
            /\ pc = "unzip" => Len(P) = zip.no /\ Len(log) = zip.no
            /\ pc = "progress" => Len(P) = zip.no - 1 /\ Len(log) = zip.no
            /\ pc = "done" => Len(P) = N /\ Succeeded = 1..N
            /\ err # "ZeroDivisionError"
            /\ N = 0 => P = <<>> /\ pc # "raised"

\* unzip has returned from an archive of MaxEntries entries
C7_Witness ==
    /\ Unzipping /\ pc = "done"
    /\ Len(zip.files) = MaxEntries /\ Len(zip.progress) = MaxEntries
    /\ zip.progress[MaxEntries].newline

\* C9: the archive handle is open while entries are listed and extracted
\* and closed once unzip has exited, normally or by an exception raised by
\* an extraction or by a progress update.
C9_HandleClosedOnExit ==
    Unzipping =>
        /\ pc \in {"unzip", "progress"} => zip.handle = "open"
        /\ pc \in {"done", "raised"} => zip.handle = "closed"

\* unzip has been left by an exception of a progress update, after an
\* earlier entry went through
C9_Witness ==
    /\ Unzipping /\ pc = "raised" /\ zip.handle = "closed"
    /\ Len(zip.progress) >= 1
    /\ log[Len(log)].err = ""

----------------------------------------------------------------------------
(* clean_expiry_files_dirs. *)

Sweeping == op = "sweep"

Finished == pc \in {"done", "raised"}

Children0 == {c \in DOMAIN fs0 : Under(c) /\ Level(c) = 0}

ExpiredChild(c) == args.now - fs0[c].ctime > args.expiry_days * 86400

Visited == {Components(log[i].path) : i \in 1..Len(log)}

\* C5 as claimed: expiry_days = -1 deletes nothing; expiry_days = 0 deletes
\* every immediate child, file or directory, whatever its creation time,
\* so that the directory is empty on return.
C5_MinusOneNothingZeroAll ==
    (Sweeping /\ Finished) =>
        /\ args.expiry_days = -1 => fs = fs0
        /\ args.expiry_days = 0 => pc = "done" /\ listdir(args.dir_path) = {}

\* C6 as claimed: for expiry_days >= 0 exactly the immediate children older
\* than expiry_days * 86400 seconds are deleted, files and directories (with
\* their subtrees) alike, all else is unchanged, and every child is visited.
C6_ExactlyExpiredDeleted ==
    (Sweeping /\ Finished /\ args.expiry_days >= 0) =>
        /\ pc = "done"
        /\ fs = Drop(fs0, UNION {Subtree(fs0, c) : c \in {x \in Children0 : ExpiredChild(x)}})
        /\ Visited = Children0

----------------------------------------------------------------------------
(* Where the refuted claims do hold. *)

\* dst_dir is not a directory the walk lists: it lies outside the tree
\* under src_dir, or is src_dir itself
DstNotWalked ==
    LET d == Components(args.dst_dir)
    IN  ~(Len(d) > Len(RootOf) /\ SubSeq(d, 1, Len(RootOf)) = RootOf)

\* the work of a bulk operation is that of the snapshot when dst_dir is
\* not walked, and always for remove_files
Bulk_SnapshotWorkWhenDstNotWalked ==
    (Bulk /\ (op = "remove" \/ DstNotWalked)) => C10_SnapshotWork

\* with dst_dir missing and its parent missing too, copy_files and
\* move_files fail at the first file and change nothing
Bulk_MissingParentFails ==
    (op \in {"copy", "move"} /\ Len(log) >= 1
       /\ ~ParentIsDir(fs0, Components(args.dst_dir))) =>
        /\ pc = "raised"
        /\ fs = fs0

\* the sweep does what is claimed when every expired child is a directory
Sweep_ExactWhenExpiredAreDirectories ==
    (Sweeping /\ \A c \in Children0 : ExpiredChild(c) => fs0[c].kind = "dir")
        => C6_ExactlyExpiredDeleted

\* a negative expiry_days deletes nothing
Sweep_NegativeDeletesNothing ==
    (Sweeping /\ args.expiry_days < 0) => (pc = "done" /\ fs = fs0 /\ log = <<>>)

====
